---- MODULE Spec2Model ----
(***************************************************************************)
(* Model of sip_advisior.py: the SIP return calculator (lines 52-67) and   *)
(* the NAV return / Buy-Hold-Sell signal block (lines 128-187).            *)
(*                                                                         *)
(* The two blocks share no data in the script, so each has its own         *)
(* specification over the same variables: SpecSip for the calculator and   *)
(* Spec for the signal block.                                              *)
(*                                                                         *)
(* Numbers.  The calculator works on Python floats built from the widget   *)
(* integers; they are modelled by exact rationals over arbitrary-size      *)
(* integers (a division by zero raises ZeroDivisionError).  The signal     *)
(* block works on numpy.float64 values taken from a DataFrame; they are    *)
(* modelled by the rationals a double can hold, every operation rounding   *)
(* its exact result to the nearest double (ties to even), extended with    *)
(* inf, -inf and nan, because a numpy division by zero yields those values *)
(* instead of raising.                                                     *)
(***************************************************************************)
EXTENDS Integers, Sequences, FiniteSets, TLC

VARIABLES
    \* --- SIP calculator (lines 54-67) ---
    sip_amt,          \* st.number_input, an integer, no minimum
    sip_years,        \* st.slider 1..30
    expected_return,  \* st.slider 1..20
    sip_pc,           \* "input" | "shown" | "error"
    n_months, monthly_rate, future_value, invested, gain,
    \* --- signal block (lines 128-187) ---
    pc,               \* position in the block
    data,             \* detail['data']: the provider's points
    return_period,    \* the selectbox choice
    navs,             \* the DataFrame after line 135
    start_date,       \* line 153
    navs_filtered,    \* lines 154/156
    selected_return,  \* line 159
    signal,           \* line 160
    outcome           \* what the block rendered

sipVars == <<sip_amt, sip_years, expected_return, sip_pc, n_months,
             monthly_rate, future_value, invested, gain>>
navVars == <<pc, data, return_period, navs, start_date, navs_filtered,
             selected_return, signal, outcome>>
vars == <<sipVars, navVars>>

-----------------------------------------------------------------------------
(* Natural numbers of arbitrary size: little-endian digit sequences in     *)
(* base Base, without leading zero digits (zero is the empty sequence).    *)
(* The operators avoid deep recursion: digits are computed position by     *)
(* position and carries are propagated in parallel passes.                 *)

Base == 10 ^ 3

\* Op(v), with v evaluated once before Op uses it
Bind(v, Op(_)) == CHOOSE r \in {Op(x) : x \in {v}} : TRUE

Digit(x, i) == IF 1 <= i /\ i <= Len(x) THEN x[i] ELSE 0

NatToBig(n) ==
    IF n = 0 THEN <<>>
    ELSE IF n < Base THEN <<n>>
    ELSE IF n < Base * Base THEN <<n % Base, n \div Base>>
    ELSE IF n < Base * Base * Base
         THEN <<n % Base, (n \div Base) % Base, n \div (Base * Base)>>
    ELSE <<n % Base, (n \div Base) % Base, (n \div (Base * Base)) % Base,
           n \div (Base * Base * Base)>>

Strip(x) ==
    LET nz == {i \in 1 .. Len(x) : x[i] # 0}
    IN  IF nz = {} THEN <<>>
        ELSE SubSeq(x, 1, CHOOSE i \in nz : \A j \in nz : j <= i)

\* v holds any integers; the result is the digit sequence of the same value
\* (which must be >= 0)
RECURSIVE Normalize(_)
Normalize(v) ==
    IF \A i \in 1 .. Len(v) : 0 <= v[i] /\ v[i] < Base
    THEN Strip(v)
    ELSE Normalize([i \in 1 .. Len(v) + 1 |->
                       (Digit(v, i) % Base) + (Digit(v, i - 1) \div Base)])

Max(a, b) == IF a >= b THEN a ELSE b

BigAdd(x, y) ==
    Normalize([i \in 1 .. Max(Len(x), Len(y)) |-> Digit(x, i) + Digit(y, i)])

\* x - y for x >= y
BigSub(x, y) ==
    Normalize([i \in 1 .. Len(x) |-> Digit(x, i) - Digit(y, i)])

\* -1, 0, 1 as x <, =, > y
BigCmp(x, y) ==
    IF Len(x) < Len(y) THEN -1
    ELSE IF Len(x) > Len(y) THEN 1
    ELSE LET diff == {i \in 1 .. Len(x) : x[i] # y[i]}
         IN  IF diff = {} THEN 0
             ELSE LET top == CHOOSE i \in diff : \A j \in diff : j <= i
                  IN  IF x[top] < y[top] THEN -1 ELSE 1

\* sum of x[i] * y[k + 1 - i] for lo <= i <= hi
RECURSIVE Conv(_, _, _, _, _)
Conv(x, y, k, lo, hi) ==
    IF lo > hi THEN 0
    ELSE IF lo = hi THEN x[lo] * y[k + 1 - lo]
    ELSE LET mid == (lo + hi) \div 2
         IN  Conv(x, y, k, lo, mid) + Conv(x, y, k, mid + 1, hi)

BigMul(x, y) ==
    IF x = <<>> \/ y = <<>> THEN <<>>
    ELSE Normalize([k \in 1 .. Len(x) + Len(y) - 1 |->
                       Conv(x, y, k, Max(1, k + 1 - Len(y)),
                            IF k <= Len(x) THEN k ELSE Len(x))])

-----------------------------------------------------------------------------
(* Signed integers [neg, mag] and rationals [num, den] with den > 0.       *)

Abs(n) == IF n < 0 THEN -n ELSE n

Z(n) == [neg |-> n < 0, mag |-> NatToBig(Abs(n))]

ZNeg(a) == [neg |-> (a.mag # <<>>) /\ ~a.neg, mag |-> a.mag]

ZAdd(a, b) ==
    IF a.neg = b.neg THEN [neg |-> a.neg, mag |-> BigAdd(a.mag, b.mag)]
    ELSE LET c == BigCmp(a.mag, b.mag)
         IN  IF c = 0 THEN [neg |-> FALSE, mag |-> <<>>]
             ELSE IF c > 0 THEN [neg |-> a.neg, mag |-> BigSub(a.mag, b.mag)]
             ELSE [neg |-> b.neg, mag |-> BigSub(b.mag, a.mag)]

ZMul(a, b) ==
    LET m == BigMul(a.mag, b.mag)
    IN  [neg |-> (m # <<>>) /\ (a.neg # b.neg), mag |-> m]

ZSign(a) == IF a.mag = <<>> THEN 0 ELSE IF a.neg THEN -1 ELSE 1

ZCmp(a, b) == ZSign(ZAdd(a, ZNeg(b)))

ZPos(m) == [neg |-> FALSE, mag |-> m]

Rat(n) == [num |-> Z(n), den |-> NatToBig(1)]

RatAdd(p, q) ==
    [num |-> ZAdd(ZMul(p.num, ZPos(q.den)), ZMul(q.num, ZPos(p.den))),
     den |-> BigMul(p.den, q.den)]

RatNeg(p) == [num |-> ZNeg(p.num), den |-> p.den]

RatSub(p, q) == RatAdd(p, RatNeg(q))

RatMul(p, q) == [num |-> ZMul(p.num, q.num), den |-> BigMul(p.den, q.den)]

RatIsZero(p) == p.num.mag = <<>>

\* p / q for q # 0
RatDiv(p, q) ==
    [num |-> [neg |-> (p.num.mag # <<>>) /\ (p.num.neg # q.num.neg),
              mag |-> BigMul(p.num.mag, q.den)],
     den |-> BigMul(p.den, q.num.mag)]

\* p ** n for n >= 0, by repeated squaring
RECURSIVE RatPow(_, _)
RatPow(p, n) ==
    IF n = 0 THEN Rat(1)
    ELSE Bind(RatPow(p, n \div 2),
              LAMBDA h : IF n % 2 = 0 THEN RatMul(h, h)
                         ELSE RatMul(RatMul(h, h), p))

\* -1, 0, 1 as p <, =, > q
RatCmp(p, q) == ZCmp(ZMul(p.num, ZPos(q.den)), ZMul(q.num, ZPos(p.den)))

RatEq(p, q) == RatCmp(p, q) = 0

NoRat == [num |-> [neg |-> FALSE, mag |-> <<>>], den |-> <<>>]

-----------------------------------------------------------------------------
(* SIP calculator, lines 52-67.                                            *)

MaxYears == 10

\* line 54: number_input(value=1000, step=500) has no minimum, so zero and
\* negative amounts can be entered
SipAmounts == {-500, 0, 500, 1000}

\* line 55: slider(1, 30, 10), cut at MaxYears
SipYears == 1 .. MaxYears

\* line 56: slider(1, 20, 12): both ends and the default
SipRates == {1, 12, 20}

SipIdle ==
    /\ sip_pc = "input"
    /\ n_months = 0
    /\ monthly_rate = NoRat
    /\ future_value = NoRat
    /\ invested = 0
    /\ gain = NoRat

InitSipInputs ==
    /\ sip_amt \in SipAmounts
    /\ sip_years \in SipYears
    /\ expected_return \in SipRates

\* line 59
NMonths(years) == years * 12

\* line 60: expected_return / 100 / 12
MonthlyRate(er) == RatDiv(RatDiv(Rat(er), Rat(100)), Rat(12))

\* the ordinary-annuity value: line 61 without its (1 + monthly_rate) factor
FutureValueOrdinary(amt, rate, n) ==
    RatDiv(RatMul(Rat(amt), RatSub(RatPow(RatAdd(Rat(1), rate), n), Rat(1))),
           rate)

\* line 61, for monthly_rate # 0:
\* sip_amt * (((1 + monthly_rate) ** n_months - 1) * (1 + monthly_rate)) / monthly_rate
FutureValue(amt, rate, n) ==
    RatDiv(RatMul(Rat(amt),
                  RatMul(RatSub(RatPow(RatAdd(Rat(1), rate), n), Rat(1)),
                         RatAdd(Rat(1), rate))),
           rate)

\* line 62
Invested(amt, n) == amt * n

\* line 63
Gain(fv, inv) == RatSub(fv, Rat(inv))

\* lines 58-67: the button is pressed.  A zero monthly_rate makes line 61
\* raise ZeroDivisionError and nothing is rendered.
CalculateSIPReturn ==
    /\ sip_pc = "input"
    /\ LET n    == NMonths(sip_years)
           rate == MonthlyRate(expected_return)
       IN  /\ n_months' = n
           /\ monthly_rate' = rate
           /\ IF RatIsZero(rate)
              THEN /\ sip_pc' = "error"
                   /\ UNCHANGED <<future_value, invested, gain>>
              ELSE LET fv  == FutureValue(sip_amt, rate, n)
                       inv == Invested(sip_amt, n)
                   IN  /\ future_value' = fv
                       /\ invested' = inv
                       /\ gain' = Gain(fv, inv)
                       /\ sip_pc' = "shown"
    /\ UNCHANGED <<sip_amt, sip_years, expected_return, navVars>>

\* A widget is changed: Streamlit reruns the script with the new values and
\* the button unpressed, so lines 59-67 are skipped and nothing is shown.
ChangeSipInputs ==
    /\ sip_pc # "input"
    /\ sip_amt' \in SipAmounts
    /\ sip_years' \in SipYears
    /\ expected_return' \in SipRates
    /\ sip_pc' = "input"
    /\ n_months' = 0
    /\ monthly_rate' = NoRat
    /\ future_value' = NoRat
    /\ invested' = 0
    /\ gain' = NoRat
    /\ UNCHANGED navVars

----

-----------------------------------------------------------------------------
(* Signal block, lines 128-187.                                            *)
(*                                                                         *)
(* A point is [date, nav] as it stands in the DataFrame after lines        *)
(* 133-134: date is the parsed Timestamp, written as the integer yyyymmdd  *)
(* (which orders like the Timestamp), and nav is the parsed float, here a  *)
(* whole number.                                                           *)

MaxLen == 3

\* line 131 asks for 30 points; series that long cannot be enumerated, so the
\* threshold is scaled down to MinPoints
MinPoints == 2

Dates == {20230330, 20240229, 20240331}

\* from 100: +10% is 110 and +24% is 124; from 110: +12.7% is 124
Navs == {0, 100, 110, 124}

Points == [date : Dates, nav : Navs]

SeriesOfLen(n) == [1 .. n -> Points]

Year(d) == d \div 10000
Month(d) == (d \div 100) % 100
Day(d) == d % 100

IsLeap(y) == (y % 4 = 0 /\ y % 100 # 0) \/ y % 400 = 0

DaysInMonth(y, m) ==
    IF m = 2 THEN (IF IsLeap(y) THEN 29 ELSE 28)
    ELSE IF m \in {4, 6, 9, 11} THEN 30 ELSE 31

\* d - pd.DateOffset(months=k): the same day k months earlier, or the last day
\* of that month when it is shorter
MinusMonths(d, k) ==
    LET t  == Year(d) * 12 + (Month(d) - 1) - k
        y  == t \div 12
        m  == (t % 12) + 1
        dm == DaysInMonth(y, m)
    IN  y * 10000 + m * 100 + (IF Day(d) > dm THEN dm ELSE Day(d))

\* line 139: the options of the selectbox
ReturnPeriods == {"1y", "1m", "3m", "6m", "2y", "3y", "5y", "till date"}

\* lines 141-150: period_mapping, as a number of months (DateOffset(years=k)
\* is DateOffset(months=12k)); "till date" maps to None and is not used
PeriodMonths(p) ==
    CASE p = "1m" -> 1
      [] p = "3m" -> 3
      [] p = "6m" -> 6
      [] p = "1y" -> 12
      [] p = "2y" -> 24
      [] p = "3y" -> 36
      [] p = "5y" -> 60

\* navs['date'].max()
MaxDate(df) ==
    CHOOSE d \in {df[i].date : i \in 1 .. Len(df)} :
        \A i \in 1 .. Len(df) : df[i].date <= d

\* df without its row i
RemoveRow(df, i) == SubSeq(df, 1, i - 1) \o SubSeq(df, i + 1, Len(df))

\* line 135: navs.sort_values('date').  The default sort is not stable, so rows
\* with equal dates may come out in any order: every arrangement of the rows
\* in which the dates do not decrease is a possible result (any row with the
\* earliest date first, then an arrangement of the others).
RECURSIVE SortValues(_)
SortValues(df) ==
    IF df = <<>> THEN {<<>>}
    ELSE UNION {{<<df[i]>> \o rest : rest \in SortValues(RemoveRow(df, i))} :
                   i \in {j \in 1 .. Len(df) :
                             \A k \in 1 .. Len(df) : df[j].date <= df[k].date}}

\* a boolean-mask selection keeps the rows whose mask is true, in order
RECURSIVE SelectRows(_, _)
SelectRows(df, mask) ==
    IF df = <<>> THEN <<>>
    ELSE IF mask[1] THEN <<df[1]>> \o SelectRows(Tail(df), Tail(mask))
    ELSE SelectRows(Tail(df), Tail(mask))

\* line 153
StartDate(df, p) == MinusMonths(MaxDate(df), PeriodMonths(p))

NavsFilteredExclusive(df, p) ==
    IF p # "till date"
    THEN LET start == StartDate(df, p)
         IN  SelectRows(df, [i \in 1 .. Len(df) |-> df[i].date > start])
    ELSE df

\* lines 152-156
NavsFiltered(df, p) ==
    IF p # "till date"
    THEN LET start == StartDate(df, p)
         IN  SelectRows(df, [i \in 1 .. Len(df) |-> df[i].date >= start])
    ELSE df

-----------------------------------------------------------------------------
(* numpy.float64 arithmetic of line 159.  A float is [kind, val]: kind is  *)
(* "num" (val is the exact value of the double), "inf", "-inf" or "nan".   *)
(* Every operation rounds its exact result to the nearest double, ties to  *)
(* even (53-bit significand; the values here stay far from overflow and    *)
(* from the subnormal range).                                              *)

\* 2^k for 0 <= k <= 140, computed once
Pow2Table == [k \in 0 .. 140 |-> RatPow(Rat(2), k).num.mag]

Pow2(k) == Pow2Table[k]

\* n / d >= 2^k, for digit sequences n, d and any integer k
GePow2(n, d, k) ==
    IF k >= 0 THEN BigCmp(n, BigMul(d, Pow2(k))) >= 0
    ELSE BigCmp(BigMul(n, Pow2(-k)), d) >= 0

\* q with bits b down to lo added, each where the result stays <= n / d
RECURSIVE QuotBits(_, _, _, _, _)
QuotBits(n, d, q, b, lo) ==
    IF b < lo THEN q
    ELSE Bind(BigAdd(q, Pow2(b)),
              LAMBDA t : IF BigCmp(BigMul(t, d), n) <= 0
                         THEN QuotBits(n, d, t, b - 1, lo)
                         ELSE QuotBits(n, d, q, b - 1, lo))

\* floor(n / d) when it is below 2^53 (the bits are found in four runs to
\* keep the recursion shallow)
Quotient(n, d) ==
    Bind(QuotBits(n, d, <<>>, 52, 39),
         LAMBDA q1 : Bind(QuotBits(n, d, q1, 38, 26),
             LAMBDA q2 : Bind(QuotBits(n, d, q2, 25, 13),
                 LAMBDA q3 : QuotBits(n, d, q3, 12, 0))))

\* floor(log2(n / d)); 2^10 > Base, so it is within 10 bits per digit of the
\* difference of the lengths
Exponent(n, d) ==
    LET w == Len(n) - Len(d)
    IN  CHOOSE j \in 10 * (w - 1) - 1 .. 10 * (w + 1) + 1 :
            GePow2(n, d, j) /\ ~GePow2(n, d, j + 1)

\* q or q + 1, as the remainder of n / d is below or above one half (a half
\* goes to the even one)
RoundQuotient(n, d, q) ==
    Bind(BigSub(n, BigMul(q, d)),
         LAMBDA r : Bind(BigCmp(BigAdd(r, r), d),
                         LAMBDA c : IF c > 0 \/ (c = 0 /\ q[1] % 2 = 1)
                                    THEN BigAdd(q, NatToBig(1)) ELSE q))

\* the 53-bit significand of mag * 2^e nearest to n / d, for e = the
\* exponent of n / d less 52
Significand(n, d, e) ==
    Bind(<<IF e < 0 THEN BigMul(n, Pow2(-e)) ELSE n,
           IF e < 0 THEN d ELSE BigMul(d, Pow2(e))>>,
         LAMBDA s : Bind(Quotient(s[1], s[2]),
                         LAMBDA q : RoundQuotient(s[1], s[2], q)))

\* the double nearest to the rational x
RoundToDouble(x) ==
    IF RatIsZero(x) THEN Rat(0)
    ELSE Bind(Exponent(x.num.mag, x.den) - 52,
              LAMBDA e : Bind(Significand(x.num.mag, x.den, e),
                  LAMBDA m : [num |-> [neg |-> x.num.neg,
                                       mag |-> IF e < 0 THEN m
                                               ELSE BigMul(m, Pow2(e))],
                              den |-> IF e < 0 THEN Pow2(-e)
                                      ELSE NatToBig(1)]))

FNum(x) == [kind |-> "num", val |-> x]
FInf == [kind |-> "inf", val |-> NoRat]
FNegInf == [kind |-> "-inf", val |-> NoRat]
FNan == [kind |-> "nan", val |-> NoRat]
NoFloat == [kind |-> "none", val |-> NoRat]

\* a whole number as a float
F(n) == FNum(Rat(n))

FSign(a) ==
    CASE a.kind = "num" -> ZSign(a.val.num)
      [] a.kind = "inf" -> 1
      [] a.kind = "-inf" -> -1

\* a - b, for finite a and b
FSub(a, b) == FNum(RoundToDouble(RatSub(a.val, b.val)))

\* a / b, for finite a and b: a zero divisor gives inf, -inf or nan
FDiv(a, b) ==
    IF RatIsZero(b.val)
    THEN (IF FSign(a) > 0 THEN FInf ELSE IF FSign(a) < 0 THEN FNegInf ELSE FNan)
    ELSE FNum(RoundToDouble(RatDiv(a.val, b.val)))

\* a * b, for a finite b > 0
FMul(a, b) ==
    IF a.kind = "num" THEN FNum(RoundToDouble(RatMul(a.val, b.val))) ELSE a

\* a > b, for a finite b: every comparison with nan is false
FGt(a, b) ==
    CASE a.kind = "num" -> RatCmp(a.val, b.val) > 0
      [] a.kind = "inf" -> TRUE
      [] a.kind = "-inf" -> FALSE
      [] a.kind = "nan" -> FALSE

\* the arithmetic of line 159 on the first and last nav:
\* (last - first) / first * 100
FloatReturn(first, last) ==
    FMul(FDiv(FSub(F(last), F(first)), F(first)), F(100))

\* FloatReturn on every pair of navs of the model, computed once
ReturnTable == [first \in Navs, last \in Navs |-> FloatReturn(first, last)]

\* line 159:
\* (navs_filtered.iloc[-1]['nav'] - navs_filtered.iloc[0]['nav'])
\*     / navs_filtered.iloc[0]['nav'] * 100
SelectedReturn(df) == ReturnTable[df[1].nav, df[Len(df)].nav]

SignalInclusive(r) ==
    IF FGt(r, F(14)) THEN "Buy"
    ELSE IF FGt(r, F(10)) \/ (r.kind = "num" /\ RatEq(r.val, Rat(10))) THEN "Hold"
    ELSE "Sell"

\* line 160
Signal(r) ==
    IF FGt(r, F(14)) THEN "Buy" ELSE IF FGt(r, F(10)) THEN "Hold" ELSE "Sell"

\* Signal of the return of every pair of navs of the model, computed once
SignalTable == [first \in Navs, last \in Navs |-> Signal(ReturnTable[first, last])]

\* line 160 on the sub-series: Signal(SelectedReturn(df))
SignalOf(df) == SignalTable[df[1].nav, df[Len(df)].nav]

-----------------------------------------------------------------------------
(* The run of the signal block.                                            *)

InitNav ==
    /\ pc = "start"
    /\ data = <<>>
    /\ return_period = "1y"     \* index=0 of the selectbox
    /\ navs = <<>>
    /\ start_date = 0
    /\ navs_filtered = <<>>
    /\ selected_return = NoFloat
    /\ signal = "none"
    /\ outcome = "none"

\* line 130: the provider answers with a list of points
FetchDetail ==
    /\ pc = "start"
    /\ \E n \in 0 .. MaxLen : data' \in SeriesOfLen(n)
    /\ pc' = "fetched"
    /\ UNCHANGED <<return_period, navs, start_date, navs_filtered,
                   selected_return, signal, outcome, sipVars>>

\* lines 130, 186-187: the request or the decoding raises; st.error
FetchError ==
    /\ pc = "start"
    /\ outcome' = "error"
    /\ pc' = "done"
    /\ UNCHANGED <<data, return_period, navs, start_date, navs_filtered,
                   selected_return, signal, sipVars>>

\* lines 131, 184-185: "Not enough data to calculate signals."
NotEnoughData ==
    /\ pc = "fetched"
    /\ ~(Len(data) >= MinPoints)
    /\ outcome' = "not_enough_data"
    /\ pc' = "done"
    /\ UNCHANGED <<data, return_period, navs, start_date, navs_filtered,
                   selected_return, signal, sipVars>>

\* lines 131-135
SortNavs ==
    /\ pc = "fetched"
    /\ Len(data) >= MinPoints
    /\ navs' \in SortValues(data)
    /\ pc' = "sorted"
    /\ UNCHANGED <<data, return_period, start_date, navs_filtered,
                   selected_return, signal, outcome, sipVars>>

EnoughForPeriodOne(df) == Len(df) > 0

\* line 158
EnoughForPeriod(df) == Len(df) > 1

\* lines 139-181: with the period chosen in the selectbox, the window is cut
\* and holds more than one row: the return and the signal are computed and
\* rendered
ComputeSignal ==
    /\ pc = "sorted"
    /\ \E p \in ReturnPeriods :
          LET filtered == NavsFiltered(navs, p)
          IN  /\ EnoughForPeriod(filtered)
              /\ return_period' = p
              /\ start_date' = IF p # "till date" THEN StartDate(navs, p) ELSE 0
              /\ navs_filtered' = filtered
              /\ selected_return' = SelectedReturn(filtered)
              /\ signal' = SignalOf(filtered)
    /\ outcome' = "signal"
    /\ pc' = "done"
    /\ UNCHANGED <<data, navs, sipVars>>

\* lines 139-158, 182-183: the window holds at most one row:
\* "Not enough data for the selected period."
NotEnoughForPeriod ==
    /\ pc = "sorted"
    /\ \E p \in ReturnPeriods :
          LET filtered == NavsFiltered(navs, p)
          IN  /\ ~EnoughForPeriod(filtered)
              /\ return_period' = p
              /\ start_date' = IF p # "till date" THEN StartDate(navs, p) ELSE 0
              /\ navs_filtered' = filtered
    /\ outcome' = "not_enough_period"
    /\ pc' = "done"
    /\ UNCHANGED <<data, navs, selected_return, signal, sipVars>>

\* lines 54-56: the widgets at their default values
SipDefaults == sip_amt = 1000 /\ sip_years = 10 /\ expected_return = 12

Init == InitNav /\ SipDefaults /\ SipIdle

Next ==
    \/ FetchDetail
    \/ FetchError
    \/ NotEnoughData
    \/ SortNavs
    \/ ComputeSignal
    \/ NotEnoughForPeriod

Spec == Init /\ [][Next]_vars

\* the calculator alone, the signal block not having run
InitSip == InitSipInputs /\ SipIdle /\ InitNav

NextSip == CalculateSIPReturn \/ ChangeSipInputs

SpecSip == InitSip /\ [][NextSip]_vars

-----------------------------------------------------------------------------
(* Properties of the SIP calculator (checked under SpecSip).               *)

\* n / d for d > 0
Frac(n, d) == [num |-> Z(n), den |-> NatToBig(d)]

\* The balance after months lo..hi when every month starts with the
\* contribution being posted and ends with the interest of that month
\* (growth = 1 + the monthly rate) being added to the whole balance.
RECURSIVE DueRun(_, _, _, _, _)
DueRun(bal, amt, growth, lo, hi) ==
    IF lo > hi THEN bal
    ELSE IF lo = hi THEN RatMul(RatAdd(bal, Rat(amt)), growth)
    ELSE Bind(DueRun(bal, amt, growth, lo, (lo + hi) \div 2),
              LAMBDA half : DueRun(half, amt, growth, (lo + hi) \div 2 + 1, hi))

\* The same with the contribution posted at the end of each month.
RECURSIVE OrdinaryRun(_, _, _, _, _)
OrdinaryRun(bal, amt, growth, lo, hi) ==
    IF lo > hi THEN bal
    ELSE IF lo = hi THEN RatAdd(RatMul(bal, growth), Rat(amt))
    ELSE Bind(OrdinaryRun(bal, amt, growth, lo, (lo + hi) \div 2),
              LAMBDA half : OrdinaryRun(half, amt, growth, (lo + hi) \div 2 + 1, hi))

Growth(annual_rate_pct) == RatAdd(Rat(1), Frac(annual_rate_pct, 1200))

SipShown == sip_pc = "shown"

\* C9: for every plan with a positive amount and a positive rate that the
\* calculator has evaluated, months = years * 12, invested = monthly_amount *
\* months, gain = future_value - invested, and future_value is the
\* annuity-due balance (each contribution posted at the start of its month and
\* then compounded), which differs from the ordinary-annuity balance; 1000 per
\* month for 10 years at 12% gives 120 months, 120000 invested and a future
\* value between 232339 and 232340.
C9_AnnuityDue ==
    (SipShown /\ sip_amt > 0 /\ expected_return > 0) =>
        /\ n_months = sip_years * 12
        /\ invested = sip_amt * n_months
        /\ RatEq(gain, RatSub(future_value, Rat(invested)))
        /\ RatEq(future_value,
                 DueRun(Rat(0), sip_amt, Growth(expected_return), 1, n_months))
        /\ ~RatEq(future_value,
                  OrdinaryRun(Rat(0), sip_amt, Growth(expected_return), 1, n_months))
        /\ (sip_amt = 1000 /\ sip_years = 10 /\ expected_return = 12) =>
               /\ n_months = 120
               /\ invested = 120000
               /\ RatCmp(future_value, Rat(232339)) >= 0
               /\ RatCmp(future_value, Rat(232340)) < 0

C9_Witness ==
    /\ SipShown
    /\ sip_amt = 1000 /\ sip_years = 10 /\ expected_return = 12
    /\ invested = 120000
    /\ RatCmp(future_value, Rat(232339)) >= 0

\* C6: a projection requested with monthly_amount <= 0, years <= 0 or
\* annual_rate_pct < 0 fails with an invalid-input error and produces no
\* invested, gain or future_value figure.
C6_InvalidInputRejected ==
    (sip_pc # "input" /\ (sip_amt <= 0 \/ sip_years <= 0 \/ expected_return < 0)) =>
        /\ sip_pc = "error"
        /\ future_value = NoRat
        /\ gain = NoRat
        /\ invested = 0


-----------------------------------------------------------------------------
(* Properties of the signal block (checked under Spec).                    *)

Computed == pc = "done" /\ outcome = "signal"

Insufficient == outcome \in {"not_enough_data", "not_enough_period"}

NoResult == selected_return = NoFloat /\ signal = "none"

\* -1, 0, 1 as the number r is below, equal to or above the whole number c
CmpNumber(r, c) ==
    CASE r.kind = "num" -> RatCmp(r.val, Rat(c))
      [] r.kind = "inf" -> 1
      [] r.kind = "-inf" -> -1

\* the numbers that the returns of the model's navs can be, each compared
\* once with 10 and with 14
NumberReturns ==
    {ReturnTable[a, b] : a \in Navs, b \in Navs} \ {FNan}

ThresholdTable ==
    [r \in NumberReturns |-> [ten |-> CmpNumber(r, 10), fourteen |-> CmpNumber(r, 14)]]

CmpWhole(r, c) ==
    IF r \in NumberReturns /\ c = 10 THEN ThresholdTable[r].ten
    ELSE IF r \in NumberReturns /\ c = 14 THEN ThresholdTable[r].fourteen
    ELSE CmpNumber(r, c)

\* C1: whenever a return r that is a number has been computed, the signal is
\* Buy exactly when r > 14, Hold exactly when 10 < r <= 14 and Sell exactly
\* when r <= 10 (so r = 14 gives Hold and r = 10 gives Sell), and it is one of
\* the three.
C1_SignalByThresholds ==
    (Computed /\ selected_return.kind # "nan") =>
        /\ signal \in {"Buy", "Hold", "Sell"}
        /\ (signal = "Buy") <=> (CmpWhole(selected_return, 14) > 0)
        /\ (signal = "Hold") <=> (CmpWhole(selected_return, 10) > 0
                                    /\ CmpWhole(selected_return, 14) <= 0)
        /\ (signal = "Sell") <=> (CmpWhole(selected_return, 10) <= 0)

\* a return of exactly 10 has been classified as Sell
C1_Witness ==
    /\ Computed
    /\ selected_return.kind = "num"
    /\ CmpWhole(selected_return, 10) = 0
    /\ signal = "Sell"

\* the earliest and the latest date of a non-empty series
FirstDate(s) ==
    CHOOSE d \in {s[i].date : i \in 1 .. Len(s)} :
        \A i \in 1 .. Len(s) : d <= s[i].date

LastDate(s) ==
    CHOOSE d \in {s[i].date : i \in 1 .. Len(s)} :
        \A i \in 1 .. Len(s) : s[i].date <= d

\* the cutoff of window p on series s: the last timestamp less the duration
\* of the window, or the first timestamp for since-inception
Cutoff(s, p) ==
    IF p = "till date" THEN FirstDate(s)
    ELSE MinusMonths(LastDate(s), PeriodMonths(p))

\* s spans window p: it starts at or before the cutoff
Spans(s, p) == FirstDate(s) <= Cutoff(s, p)

Valid(s) == Cardinality({s[i].date : i \in 1 .. Len(s)}) >= 2

\* the window has been cut
Selected == pc = "done" /\ outcome \in {"signal", "not_enough_period"}

\* a series as the data model defines it: one point per timestamp, positive
\* values
DistinctDates(s) == \A i, j \in 1 .. Len(s) : i # j => s[i].date # s[j].date

PositiveNavs(s) == \A i \in 1 .. Len(s) : s[i].nav > 0

\* C2: a series (one point per timestamp, positive values) that is shorter
\* than the requested window yields an insufficient-data outcome and no return
\* or signal, even when two or more of its points fall inside the window.
C2_ShortSeriesRejected ==
    (pc = "done" /\ Selected /\ DistinctDates(data) /\ PositiveNavs(data)
        /\ return_period # "till date" /\ ~Spans(data, return_period)) =>
        (Insufficient /\ NoResult)

\* C3: for every series with at least 2 distinct timestamps and every window
\* it spans, the selected sub-series is the suffix of the sorted series made of
\* exactly the points with timestamp >= cutoff (cutoff = last timestamp less
\* the window, or the first timestamp for since-inception): the boundary is
\* inclusive, its first timestamp is >= cutoff and its last timestamp is the
\* last timestamp of the series.
C3_WindowIsSuffixFromCutoff ==
    (Selected /\ Valid(navs) /\ Spans(navs, return_period)) =>
        LET c == Cutoff(navs, return_period)
            k == Len(navs_filtered)
            n == Len(navs)
        IN  /\ k >= 1 /\ k <= n
            /\ navs_filtered = SubSeq(navs, n - k + 1, n)
            /\ \A i \in 1 .. n : (navs[i].date >= c) <=> (i > n - k)
            /\ navs_filtered[1].date >= c
            /\ navs_filtered[k].date = LastDate(data)
            /\ return_period # "till date" =>
                   start_date = MinusMonths(LastDate(data), PeriodMonths(return_period))

\* a window whose cutoff falls exactly on a point of the series, which is
\* kept, while an older point is dropped
C3_Witness ==
    /\ Selected /\ Valid(navs) /\ Spans(navs, return_period)
    /\ return_period = "1m"
    /\ Len(navs_filtered) < Len(navs)
    /\ navs_filtered[1].date = Cutoff(navs, return_period)

\* C4: when the first value of the sub-series (of a series with one point per
\* timestamp) is 0 the return computation fails with an error that is
\* surfaced: no return and no signal is produced.
C4_ZeroStartFails ==
    (pc = "done" /\ Selected /\ DistinctDates(data) /\ Len(navs_filtered) >= 2
        /\ navs_filtered[1].nav = 0) =>
        (outcome = "error" /\ NoResult)

\* the number of points of s inside window p
InWindow(s, p) ==
    IF s = <<>> THEN 0
    ELSE Cardinality({i \in 1 .. Len(s) : s[i].date >= Cutoff(s, p)})

\* C7: when fewer than 2 points are available inside the requested window (a
\* series of fewer than 2 points has fewer than 2 in every window), the
\* outcome is an insufficient-data message and there is no return value (no
\* default of 0) and no signal.
C7_FewPointsRejected ==
    (pc = "done" /\ outcome # "error"
        /\ (Len(data) < 2 \/ (Selected /\ InWindow(data, return_period) < 2))) =>
        (Insufficient /\ NoResult)

\* a series long enough to be processed with a single point in the window
C7_Witness ==
    /\ pc = "done"
    /\ Len(data) >= MinPoints
    /\ Selected
    /\ return_period = "1m"
    /\ InWindow(data, return_period) = 1
    /\ outcome = "not_enough_period"
    /\ NoResult

\* the sign of a float that is a number, or 2 for nan
SignOf(r) == IF r.kind = "nan" THEN 2 ELSE FSign(r)

SignInt(n) == IF n > 0 THEN 1 ELSE IF n < 0 THEN -1 ELSE 0

\* C8: the return (of a series with one point per timestamp) is computed from
\* the first and the last point of the sub-series only: its sign is the sign
\* of last value minus first value, and when the two are equal it is 0 and the
\* signal is Sell.
C8_ReturnFromFirstAndLast ==
    (Computed /\ DistinctDates(data)) =>
        LET first == navs_filtered[1].nav
            last == navs_filtered[Len(navs_filtered)].nav
        IN  /\ SignOf(selected_return) = SignInt(last - first)
            /\ (first = last) =>
                   /\ selected_return.kind = "num"
                   /\ RatIsZero(selected_return.val)
                   /\ signal = "Sell"

\* C10: the series the engine works on is strictly increasing by timestamp,
\* with one point per timestamp, the last one of the raw series among
\* duplicates.
C10_SortedAndDeduplicated ==
    (pc = "sorted" \/ Computed) =>
        /\ \A i, j \in 1 .. Len(navs) : i < j => navs[i].date < navs[j].date
        /\ \A k \in 1 .. Len(navs) :
              \E i \in 1 .. Len(data) :
                  /\ data[i] = navs[k]
                  /\ \A j \in 1 .. Len(data) :
                        data[j].date = data[i].date => j <= i


====
